---- MODULE Spec2Model ----
(***************************************************************************)
(* A model of @skyra/gifenc: the growable ByteBuffer, the GIF-flavoured    *)
(* LZWEncoder, the NeuQuant quantizer (index build, colour map, lookup)    *)
(* and the GifEncoder framing state machine with its readable streams.     *)
(*                                                                         *)
(* Bytes are integers 0..255, byte arrays are sequences (index k of the    *)
(* source is position k+1 here), typed arrays indexed from 0 are functions *)
(* on 0..n-1.                                                              *)
(***************************************************************************)
EXTENDS Integers, Sequences, FiniteSets, TLC

(***************************************************************************)
(* Bounds of the model (not program constants).                            *)
(***************************************************************************)
\* Longest exhaustively enumerated LZW input.
MaxLen == 4

\* Length of the generated long LZW inputs (long enough to fill the
\* 4096-entry dictionary and force a mid-stream clear code).
LongLen == 4100

(***************************************************************************)
(* Integer helpers for the bit operations of the source.                   *)
(***************************************************************************)
RECURSIVE Pow2(_)
Pow2(n) == IF n = 0 THEN 1 ELSE 2 * Pow2(n - 1)

\* a ^ b on non-negative integers.
RECURSIVE BitXor(_, _)
BitXor(a, b) ==
    IF a = 0 THEN b
    ELSE IF b = 0 THEN a
    ELSE (((a % 2) + (b % 2)) % 2) + 2 * BitXor(a \div 2, b \div 2)

\* a | b on non-negative integers.
RECURSIVE BitOr(_, _)
BitOr(a, b) ==
    IF a = 0 THEN b
    ELSE IF b = 0 THEN a
    ELSE (IF a % 2 = 1 \/ b % 2 = 1 THEN 1 ELSE 0) + 2 * BitOr(a \div 2, b \div 2)

Max(a, b) == IF a >= b THEN a ELSE b
Min(a, b) == IF a <= b THEN a ELSE b
Abs(a) == IF a < 0 THEN -a ELSE a

\* for (i = lo; i <= hi; i++) acc = Step(acc, i): the range is split in
\* halves and acc is evaluated before it is passed on, which keeps the
\* evaluation depth logarithmic in the length of the loop.
RECURSIVE ForRange(_, _, _, _)
ForRange(Step(_, _), acc, lo, hi) ==
    IF lo > hi THEN acc
    ELSE IF acc = acc /\ lo = hi THEN Step(acc, lo)
    ELSE LET mid == (lo + hi) \div 2
         IN  ForRange(Step, ForRange(Step, acc, lo, mid), mid + 1, hi)

\* The value f, evaluated in full.
Forced(f) == IF f = f THEN f ELSE f

\* The sequence holding b exactly n times.
Repeated(b, n) == [k \in 1..n |-> b]

(***************************************************************************)
(* ByteBuffer.  A buffer is [data, size]: data is the written prefix       *)
(* data[0..written-1] of the backing store (written = Len(data)), size is  *)
(* the length of the backing store.  A store at an index that is not below *)
(* the length of the backing store is dropped: the cell is Lost.           *)
(***************************************************************************)
\* The content of a cell whose store was dropped; it reads as undefined.
Lost == -1

\* constructor(size = 8192)
DefaultBufferSize == 8192

NewByteBuffer == [data |-> <<>>, size |-> DefaultBufferSize]

\* Math.pow(2, Math.ceil(Math.log(n) / Math.log(2))) for n >= 1.
RECURSIVE NextPow2From(_, _)
NextPow2From(p, n) == IF p >= n THEN p ELSE NextPow2From(2 * p, n)

\* ensureByte(): the backing store length after the call.
EnsureByte(bb) ==
    IF Len(bb.data) + 1 >= bb.size THEN bb.size * 2 ELSE bb.size

\* An ensureBytes that sizes the store for the bytes already written only.
EnsureBytesWritten(bb, n) ==
    IF Len(bb.data) + n >= bb.size THEN NextPow2From(1, Len(bb.data)) ELSE bb.size

\* An ensureBytes that doubles the store.
EnsureBytesDouble(bb, n) ==
    IF Len(bb.data) + n >= bb.size THEN bb.size * 2 ELSE bb.size

\* ensureBytes(n): the backing store length after the call.  Math.pow(2,
\* Math.ceil(Math.log(x) / Math.log(2))) is the least power of two that is
\* at least x for every x in 1..70000.
EnsureBytes(bb, n) ==
    IF Len(bb.data) + n >= bb.size THEN NextPow2From(1, Len(bb.data) + n) ELSE bb.size

\* A number stored into the backing store keeps its low eight bits.
ToUint8(n) == n % 256

\* copyBytes(size) and `this.data = ...`: the first `written` cells are
\* copied into a store of the given length; a Lost cell is read as
\* undefined and stored as 0, a store past the new length is dropped.
CopyBytes(bb, size) ==
    [data |-> [i \in 1..Len(bb.data) |->
                  IF i > size THEN Lost
                  ELSE IF bb.data[i] = Lost THEN 0 ELSE bb.data[i]],
     size |-> size]

\* `this.data[this.written++] = b` for each b of bytes, in a buffer whose
\* store has the length size after ensureByte or ensureBytes.
StoreBytes(bb, size, bytes) ==
    IF bb.size = size /\ Len(bb.data) + Len(bytes) <= size
    THEN [data |-> bb.data \o bytes, size |-> size]
    ELSE [data |-> (IF size = bb.size THEN bb.data ELSE CopyBytes(bb, size).data)
                      \o [k \in 1..Len(bytes) |->
                             IF Len(bb.data) + k <= size THEN bytes[k] ELSE Lost],
          size |-> size]

\* writeByte(byte)
WriteByte(bb, byte) == StoreBytes(bb, EnsureByte(bb), <<ToUint8(byte)>>)

\* writeTimes(byte, times)
WriteTimes(bb, byte, times) ==
    StoreBytes(bb, EnsureBytes(bb, times), Repeated(ToUint8(byte), times))

\* writeBytes(bytes, start = 0, end = bytes.length), bytes a sequence.
WriteBytes(bb, bytes, start, end) ==
    StoreBytes(bb, EnsureBytes(bb, end - start),
               [k \in 1..(end - start) |-> ToUint8(bytes[start + k])])

\* reset(): written = 0, the backing store is kept.
ResetBuffer(bb) == [data |-> <<>>, size |-> bb.size]

\* toArray(): this.data.subarray(0, this.written)
ToArray(bb) == SubSeq(bb.data, 1, Min(Len(bb.data), bb.size))

(***************************************************************************)
(* LZWEncoder.                                                             *)
(***************************************************************************)
EOF == -1
BITS == 12
HASH_SIZE == 5003

\* getMaximumCode(size)
GetMaximumCode(size) == Pow2(size) - 1

\* this.hashes after resetHashRange(HASH_SIZE)
ResetHashRange == [i \in 0..(HASH_SIZE - 1) |-> -1]

\* The encoder's fields after the constructor, with the output buffer it
\* writes to (out) and the local `code` of compress.  Four fields observe
\* one run of compress: entries, the number of slots of hashes that hold a
\* key (counted where hashes is filled, kept up where one slot is stored);
\* calls, the processOutput calls made (the code, and bitSize,
\* firstUnusedEntry and entries at the call); slots, the least and the
\* greatest index used on hashes and codes; stuck, that the probe loop
\* cannot end.
NewLZWEncoder(colorDepth, out) ==
    [initCodeSize |-> Max(2, colorDepth),
     currentAccumulator |-> 0, currentBits |-> 0,
     accumulator |-> 0, accumulators |-> <<>>,
     firstUnusedEntry |-> 0, maximumCode |-> 0, bitSize |-> 0,
     clearFlag |-> FALSE, globalInitialBits |-> 0,
     clearCode |-> 0, endOfFrameCode |-> 0,
     hashes |-> ResetHashRange, codes |-> [i \in 0..(HASH_SIZE - 1) |-> 0],
     code |-> 0, out |-> out,
     entries |-> 0, calls |-> <<>>, slots |-> <<0, 0>>, stuck |-> FALSE]

\* A flushPacket that writes the packet without its length byte.
FlushPacketNoLength(e) ==
    IF e.accumulator > 0
    THEN [e EXCEPT !.out = WriteBytes(e.out, e.accumulators, 0, e.accumulator),
                   !.accumulator = 0, !.accumulators = <<>>]
    ELSE e

\* flushPacket(output)
FlushPacket(e) ==
    IF e.accumulator > 0
    THEN [e EXCEPT !.out = WriteBytes(WriteByte(e.out, e.accumulator),
                                      e.accumulators, 0, e.accumulator),
                   !.accumulator = 0, !.accumulators = <<>>]
    ELSE e

\* addCharacter(c, output)
AddCharacter(e, c) ==
    LET e1 == [e EXCEPT !.accumulators = Append(e.accumulators, c),
                        !.accumulator = e.accumulator + 1]
    IN  IF e1.accumulator >= 254 THEN FlushPacket(e1) ELSE e1

\* while (currentBits >= 8) { addCharacter(acc & 0xff); acc >>= 8; currentBits -= 8 }
RECURSIVE DrainBytes(_)
DrainBytes(e) ==
    IF e.currentBits >= 8
    THEN DrainBytes([AddCharacter(e, e.currentAccumulator % 256) EXCEPT
                        !.currentAccumulator = e.currentAccumulator \div 256,
                        !.currentBits = e.currentBits - 8])
    ELSE e

\* while (currentBits > 0) { addCharacter(acc & 0xff); acc >>= 8; currentBits -= 8 }
RECURSIVE DrainRest(_)
DrainRest(e) ==
    IF e.currentBits > 0
    THEN DrainRest([AddCharacter(e, e.currentAccumulator % 256) EXCEPT
                        !.currentAccumulator = e.currentAccumulator \div 256,
                        !.currentBits = e.currentBits - 8])
    ELSE e

\* A code-size update that takes 2^BITS - 1, not 2^BITS, as the greatest
\* code of BITS bits.
GrowCodeSizePastBits(e) ==
    IF e.firstUnusedEntry > e.maximumCode \/ e.clearFlag
    THEN IF e.clearFlag
         THEN [e EXCEPT !.bitSize = e.globalInitialBits,
                        !.maximumCode = GetMaximumCode(e.globalInitialBits),
                        !.clearFlag = FALSE]
         ELSE [e EXCEPT !.bitSize = e.bitSize + 1,
                        !.maximumCode = GetMaximumCode(e.bitSize + 1)]
    ELSE e

\* The code-size update of processOutput.
GrowCodeSize(e) ==
    IF e.firstUnusedEntry > e.maximumCode \/ e.clearFlag
    THEN IF e.clearFlag
         THEN [e EXCEPT !.bitSize = e.globalInitialBits,
                        !.maximumCode = GetMaximumCode(e.globalInitialBits),
                        !.clearFlag = FALSE]
         ELSE [e EXCEPT !.bitSize = e.bitSize + 1,
                        !.maximumCode = IF e.bitSize + 1 = BITS
                                        THEN Pow2(BITS)
                                        ELSE GetMaximumCode(e.bitSize + 1)]
    ELSE e

\* The number of slots of hashes that hold a key.
Entries(hashes) == Cardinality({i \in DOMAIN hashes : hashes[i] >= 0})

\* The count for the table that resetHashRange leaves.
EntriesAfterReset == Entries(ResetHashRange)

\* processOutput(code, outs)
ProcessOutput(e, code) ==
    LET masked == e.currentAccumulator % Pow2(e.currentBits)
        acc == IF e.currentBits > 0
               THEN BitOr(masked, code * Pow2(e.currentBits))
               ELSE code
        e1 == DrainBytes([e EXCEPT !.currentAccumulator = acc,
                                   !.currentBits = e.currentBits + e.bitSize,
                                   !.calls = Append(e.calls,
                                       [code |-> code, bitSize |-> e.bitSize,
                                        firstUnusedEntry |-> e.firstUnusedEntry,
                                        entries |-> e.entries])])
        e2 == GrowCodeSize(e1)
    IN  IF code = e2.endOfFrameCode THEN FlushPacket(DrainRest(e2)) ELSE e2

\* A clearCodeTable that does not raise clearFlag.
ClearCodeTableKeepWidth(e) ==
    ProcessOutput([e EXCEPT !.hashes = ResetHashRange,
                            !.entries = EntriesAfterReset,
                            !.firstUnusedEntry = e.clearCode + 2],
                  e.clearCode)

\* clearCodeTable(output)
ClearCodeTable(e) ==
    ProcessOutput([e EXCEPT !.hashes = ResetHashRange,
                            !.entries = EntriesAfterReset,
                            !.firstUnusedEntry = e.clearCode + 2,
                            !.clearFlag = TRUE],
                  e.clearCode)

\* A primary hash that shifts the pixel by five bits.
HashIndexWide(c, code) == BitXor(c * 32, code)

\* (c << hshift) ^ code, with hshift = 4 for a table of 5003 slots.
HashIndex(c, code) == BitXor(c * 16, code)

\* hashes[i]: a read outside the typed array gives undefined, which is
\* neither equal to a key nor >= 0.
NoSlot == -2

SlotAt(hashes, i) == IF i \in DOMAIN hashes THEN hashes[i] ELSE NoSlot

\* The search stops at slot j: it holds the searched key, or no key.
Stops(hashes, hash, j) == SlotAt(hashes, j) = hash \/ ~(SlotAt(hashes, j) >= 0)

\* The secondary probe of compress: the slots the do-while loop visits after
\* path, up to the slot where it stops.  A path longer than the table has
\* visited every slot of its cycle without stopping: the loop never ends.
RECURSIVE Probe(_, _, _, _, _)
Probe(hashes, hash, i, dispose, path) ==
    LET j == IF i - dispose < 0 THEN i - dispose + HASH_SIZE ELSE i - dispose
    IN  IF Len(path) > HASH_SIZE THEN path
        ELSE IF Stops(hashes, hash, j) THEN Append(path, j)
        ELSE Probe(hashes, hash, j, dispose, Append(path, j))

\* The slots one search visits, from the primary index i0 on.
ProbePath(hashes, hash, i0) ==
    IF Stops(hashes, hash, i0) THEN <<i0>>
    ELSE Probe(hashes, hash, i0, IF i0 = 0 THEN 1 ELSE HASH_SIZE - i0, <<i0>>)

\* codes[i] = firstUnusedEntry++; hashes[i] = hash (a store outside the
\* typed arrays is dropped).
InsertEntry(e, i, hash) ==
    [e EXCEPT !.codes = IF i \in DOMAIN e.codes
                        THEN [e.codes EXCEPT ![i] = e.firstUnusedEntry]
                        ELSE e.codes,
              !.hashes = IF i \in DOMAIN e.hashes
                         THEN [e.hashes EXCEPT ![i] = hash]
                         ELSE e.hashes,
              !.entries = IF i \in DOMAIN e.hashes /\ ~(e.hashes[i] >= 0)
                          THEN e.entries + 1
                          ELSE e.entries,
              !.firstUnusedEntry = e.firstUnusedEntry + 1]

\* What compress does after its search of the table ended at slot i.
AfterSearch(e, c, hash, i) ==
    IF SlotAt(e.hashes, i) = hash THEN [e EXCEPT !.code = e.codes[i]]
    ELSE LET e1 == [ProcessOutput(e, e.code) EXCEPT !.code = c]
         IN  IF e1.firstUnusedEntry < Pow2(BITS)
             THEN InsertEntry(e1, i, hash)
             ELSE ClearCodeTable(e1)

PathSlots(path) == {path[k] : k \in DOMAIN path}

\* The least and the greatest index used, after the slots of path.
SlotsWith(slots, path) ==
    <<Min(slots[1], CHOOSE x \in PathSlots(path) : \A y \in PathSlots(path) : x <= y),
      Max(slots[2], CHOOSE x \in PathSlots(path) : \A y \in PathSlots(path) : x >= y)>>

\* The search of one iteration, given the slots it visits.
SearchTable(e, c, hash, path) ==
    IF Len(path) > HASH_SIZE
    THEN [e EXCEPT !.slots = SlotsWith(e.slots, path), !.stuck = TRUE]
    ELSE AfterSearch([e EXCEPT !.slots = SlotsWith(e.slots, path)],
                     c, hash, path[Len(path)])

\* One iteration of compress's outer loop, for the pixel c.
CompressPixel(e, c) ==
    IF e.stuck THEN e
    ELSE SearchTable(e, c, c * Pow2(BITS) + e.code,
                     ProbePath(e.hashes, c * Pow2(BITS) + e.code, HashIndex(c, e.code)))

\* The outer loop of compress over pixels[lo..hi] (1-based), split in halves
\* so that the evaluation depth stays logarithmic.
RECURSIVE CompressRange(_, _, _, _)
CompressRange(e, pixels, lo, hi) ==
    IF lo > hi \/ e.code = EOF THEN e
    ELSE IF lo = hi THEN CompressPixel(e, pixels[lo] % 256)
    ELSE LET mid == (lo + hi) \div 2
         IN  CompressRange(CompressRange(e, pixels, lo, mid), pixels, mid + 1, hi)

\* compress up to its outer loop: the fields set, the first pixel read and
\* the clear code put out.
CompressBegin(e, initialBits, pixels, n) ==
    ProcessOutput([e EXCEPT !.globalInitialBits = initialBits,
                            !.clearFlag = FALSE,
                            !.bitSize = initialBits,
                            !.maximumCode = GetMaximumCode(initialBits),
                            !.clearCode = Pow2(initialBits - 1),
                            !.endOfFrameCode = Pow2(initialBits - 1) + 1,
                            !.firstUnusedEntry = Pow2(initialBits - 1) + 2,
                            !.accumulator = 0, !.accumulators = <<>>,
                            !.code = IF n = 0 THEN EOF ELSE pixels[1] % 256,
                            !.hashes = ResetHashRange,
                            !.entries = EntriesAfterReset,
                            !.calls = <<>>, !.slots = <<0, 0>>],
                  Pow2(initialBits - 1))

\* compress after its outer loop: the pending code, then the end code.
CompressEnd(e) ==
    IF e.stuck THEN e ELSE
    LET e3 == ProcessOutput(e, e.code)
    IN  ProcessOutput(e3, e3.endOfFrameCode)

\* compress(initialBits, output) for remaining = n pixels.
Compress(e, initialBits, pixels, n) ==
    CompressEnd(CompressRange(CompressBegin(e, initialBits, pixels, n), pixels, 2, n))

\* new LZWEncoder(width, height, pixels, colorDepth).encode(output): the
\* output buffer after the call.
LZWEncode(width, height, pixels, colorDepth, output) ==
    LET e == NewLZWEncoder(colorDepth, output)
        e1 == [e EXCEPT !.out = WriteByte(e.out, e.initCodeSize)]
        e2 == Compress(e1, e1.initCodeSize + 1, pixels, width * height)
    IN  WriteByte(e2.out, 0)

(***************************************************************************)
(* NeuQuant.  A neuron is <<c0, c1, c2, tag>> (network[k] of the source is *)
(* position k+1), the network a function on 0..255.                        *)
(***************************************************************************)
learningCycles == 100
maximumColorsSize == 256
maximumColorsPosition == maximumColorsSize - 1
networkBiasShift == 4
initialRadiusBiasShift == 6
initialRadius == (maximumColorsSize \div 8) * Pow2(initialRadiusBiasShift)
initialAlpha == Pow2(10)
radiusBias == Pow2(8)
alphaRadiusBias == Pow2(18)
minimumPictureBytes == 3 * 503

Neurons == 0..(maximumColorsSize - 1)

\* init(): v = (i << (networkBiasShift + 8)) / maximumColorsSize
InitNetwork ==
    [i \in Neurons |->
        LET v == (i * Pow2(networkBiasShift + 8)) \div maximumColorsSize
        IN  <<v, v, v, 0>>]

\* The number of iterations of learn's loop `while (i < samplePixels)`,
\* samplePixels = length / (3 * sampleFactorial), for an integer factor.
LearnIterations(length, sampleFactorial) ==
    (length + 3 * sampleFactorial - 1) \div (3 * sampleFactorial)

\* four primes near 500
prime1 == 499
prime2 == 491
prime3 == 487
prime4 == 503

\* The step of learn through the input.
LearnStep(length) ==
    IF length < minimumPictureBytes THEN 3
    ELSE IF length % prime1 # 0 THEN 3 * prime1
    ELSE IF length % prime2 # 0 THEN 3 * prime2
    ELSE IF length % prime3 # 0 THEN 3 * prime3
    ELSE 3 * prime4

\* The values of pixelPosition at which the iterations of learn's loop read
\* a pixel, in order: pixelPosition += step, minus length once it is not
\* below length.
LearnPositions(length, sampleFactorial) ==
    [k \in 1..LearnIterations(length, sampleFactorial) |->
        ((k - 1) * LearnStep(length)) % length]

\* |c0 - b| + |c1 - g| + |c2 - r|
Distance(n, b, g, r) == Abs(n[1] - b) + Abs(n[2] - g) + Abs(n[3] - r)

\* contest(b, g, r) on the network of init(), where every bias is 0: the
\* loop keeps <<bestBiasDistance, bestBiasPosition>>, starting from
\* <<~(1 << 31), -1>>, and returns the best bias position.
Contest(net, b, g, r) ==
    LET Step(acc, i) ==
            LET biasDistance == Distance(net[i], b, g, r) - 0
            IN  IF biasDistance < acc[1] THEN <<biasDistance, i>> ELSE acc
    IN  ForRange(Step, <<2147483647, -1>>, 0, maximumColorsSize - 1)[2]

\* radiusPower[i] = alpha * (((rad * rad - i * i) * radiusBias) / (rad * rad))
RadiusPower(alpha, rad, i) == (alpha * ((rad * rad - i * i) * radiusBias)) \div (rad * rad)

\* The first iteration of learn's loop on the network of init(), where
\* alpha = initialAlpha and rad = initialRadius >> initialRadiusBiasShift.
\* Coordinates are returned as numerators over alphaRadiusBias: the
\* quotients of alterSingle and alterNeighbors are exact in this iteration.
LearnFirst(b, g, r) ==
    LET net == InitNetwork
        alpha == initialAlpha
        rad == initialRadius \div Pow2(initialRadiusBiasShift)
        j == Contest(net, b, g, r)
        lo == Abs(j - rad)
        hi == Min(j + rad, maximumColorsSize)
        \* alterSingle: c -= (alpha * (c - t)) / initialAlpha
        \* (the quotient is exact: alpha = initialAlpha)
        Single(c, t) == (c - (alpha * (c - t)) \div initialAlpha) * alphaRadiusBias
        \* alterNeighbors: c -= (radiusPower[m] * (c - t)) / alphaRadiusBias
        Neighbor(c, t, m) == c * alphaRadiusBias - RadiusPower(alpha, rad, m) * (c - t)
        Same(c) == c * alphaRadiusBias
    IN  [i \in Neurons |->
            LET n == net[i]
            IN  IF i = j
                THEN <<Single(n[1], b), Single(n[2], g), Single(n[3], r), n[4]>>
                ELSE IF rad # 0 /\ ((i > j /\ i < hi) \/ (i < j /\ i > lo))
                THEN <<Neighbor(n[1], b, Abs(i - j)), Neighbor(n[2], g, Abs(i - j)),
                       Neighbor(n[3], r, Abs(i - j)), n[4]>>
                ELSE <<Same(n[1]), Same(n[2]), Same(n[3]), n[4]>>]

\* learn() for an input on which the loop runs once: the pixel at position
\* 0 is read, its channels shifted left by networkBiasShift.
Learn(pixels) ==
    LearnFirst((pixels[1] % 256) * Pow2(networkBiasShift),
               (pixels[2] % 256) * Pow2(networkBiasShift),
               (pixels[3] % 256) * Pow2(networkBiasShift))

\* An unBiasNetwork that records the positions and leaves the coordinates
\* biased.
UnBiasNetworkKeepBias(net) ==
    [i \in Neurons |->
        <<net[i][1] \div alphaRadiusBias, net[i][2] \div alphaRadiusBias,
          net[i][3] \div alphaRadiusBias, i>>]

\* unBiasNetwork(): c >>= networkBiasShift on a non-negative coordinate
\* given as a numerator over alphaRadiusBias; network[3] = i.
UnBiasNetwork(net) ==
    [i \in Neurons |->
        <<(net[i][1] \div alphaRadiusBias) \div Pow2(networkBiasShift),
          (net[i][2] \div alphaRadiusBias) \div Pow2(networkBiasShift),
          (net[i][3] \div alphaRadiusBias) \div Pow2(networkBiasShift),
          i>>]

\* The inner loop of buildIndexes: <<smallpos, smallval>> after the scan of
\* i+1..netsize-1, starting from position i.
Smallest(net, i) ==
    LET Step(acc, j) == IF net[j][2] < acc[2] THEN <<j, net[j][2]>> ELSE acc
    IN  ForRange(Step, <<i, net[i][2]>>, i + 1, maximumColorsSize - 1)

\* One iteration of the outer loop of buildIndexes at position i, on
\* [networks, networkIndex, previouscol, startpos].
BuildIndexStep(q, i) ==
    LET net == q.networks
        small == Smallest(net, i)
        smallpos == small[1]
        smallval == small[2]
        swapped == IF i # smallpos
                   THEN [net EXCEPT ![i] = net[smallpos], ![smallpos] = net[i]]
                   ELSE net
    IN  IF smallval # q.previouscol
        THEN [networks |-> swapped,
              networkIndex |->
                  [k \in 0..255 |->
                      IF k = q.previouscol THEN (q.startpos + i) \div 2
                      ELSE IF k > q.previouscol /\ k < smallval THEN i
                      ELSE q.networkIndex[k]],
              previouscol |-> smallval,
              startpos |-> i]
        ELSE [q EXCEPT !.networks = swapped]

\* buildIndexes()
BuildIndexes(net) ==
    LET q == ForRange(BuildIndexStep,
                      [networks |-> net, networkIndex |-> [k \in 0..255 |-> 0],
                       previouscol |-> 0, startpos |-> 0],
                      0, maximumColorsSize - 1)
    IN  [networks |-> q.networks,
         networkIndex |->
             [k \in 0..255 |->
                 IF k = q.previouscol THEN (q.startpos + maximumColorsPosition) \div 2
                 ELSE IF k > q.previouscol THEN maximumColorsPosition
                 ELSE q.networkIndex[k]]]

\* new NeuQuant(pixels, sampleFactorial): init, learn, unBiasNetwork,
\* buildIndexes.  The quantizer is [networks, networkIndex].
NewNeuQuant(pixels, sampleFactorial) ==
    BuildIndexes(UnBiasNetwork(Learn(pixels)))

\* getColorMap(): map is a Float64Array of maximumColorsSize elements, and a
\* typed array drops the writes at k >= its length; the result is given as
\* a sequence (map[k] at position k+1).
GetColorMap(q) ==
    LET index == [l \in Neurons |-> CHOOSE i \in Neurons : q.networks[i][4] = l]
    IN  [k \in 1..maximumColorsSize |-> q.networks[index[(k - 1) \div 3]][((k - 1) % 3) + 1]]

\* A loop body of lookupRGB that leaves the third coordinate out of the
\* distance.
LookupStepNoRed(acc, n, d1, b, r) ==
    IF acc.broke THEN acc
    ELSE IF d1 >= acc.bestDistance THEN [acc EXCEPT !.broke = TRUE]
    ELSE LET d2 == Abs(d1) + Abs(n[1] - b)
         IN  IF d2 >= acc.bestDistance THEN acc
             ELSE [acc EXCEPT !.bestDistance = d2, !.best = n[4]]

\* The body of both loops of lookupRGB at neuron n, where d1 is the signed
\* green difference; the loop state is [bestDistance, best, broke].
LookupStep(acc, n, d1, b, r) ==
    IF acc.broke THEN acc
    ELSE IF d1 >= acc.bestDistance THEN [acc EXCEPT !.broke = TRUE]
    ELSE LET d2 == Abs(d1) + Abs(n[1] - b)
             d3 == d2 + Abs(n[3] - r)
         IN  IF d2 >= acc.bestDistance \/ d3 >= acc.bestDistance THEN acc
             ELSE [acc EXCEPT !.bestDistance = d3, !.best = n[4]]

\* lookupRGB(b, g, r)
LookupRGB(q, b, g, r) ==
    LET index == q.networkIndex[g]
        \* for (i = index; i < netsize; ++i), distance = network[1] - g
        Up(acc, i) == LookupStep(acc, q.networks[i], q.networks[i][2] - g, b, r)
        \* for (j = index - 1; j >= 0; --j), distance = g - network[1];
        \* the k-th iteration is at j = index - 1 - k
        Down(acc, k) == LookupStep(acc, q.networks[index - 1 - k],
                                   g - q.networks[index - 1 - k][2], b, r)
        up == ForRange(Up, [bestDistance |-> 1000, best |-> -1, broke |-> FALSE],
                       index, maximumColorsSize - 1)
        down == ForRange(Down, [up EXCEPT !.broke = FALSE], 0, index - 1)
    IN  down.best

(***************************************************************************)
(* A reference GIF-LZW decoder (not part of the encoder): the oracle of    *)
(* the round-trip and sub-block properties.                                *)
(***************************************************************************)
\* The sub-blocks of bytes from position pos (1-based): [ok, data, lens,
\* next]: the concatenated data bytes, the block lengths, and the position
\* after the zero-length terminator; ok is FALSE if the bytes run out first.
RECURSIVE SubBlocks(_, _)
SubBlocks(bytes, pos) ==
    IF pos > Len(bytes) THEN [ok |-> FALSE, data |-> <<>>, lens |-> <<>>, next |-> pos]
    ELSE IF bytes[pos] = 0 THEN [ok |-> TRUE, data |-> <<>>, lens |-> <<>>, next |-> pos + 1]
    ELSE IF pos + bytes[pos] > Len(bytes)
         THEN [ok |-> FALSE, data |-> <<>>, lens |-> <<bytes[pos]>>, next |-> pos]
    ELSE LET rest == SubBlocks(bytes, pos + bytes[pos] + 1)
         IN  [ok |-> rest.ok,
              data |-> SubSeq(bytes, pos + 1, pos + bytes[pos]) \o rest.data,
              lens |-> <<bytes[pos]>> \o rest.lens,
              next |-> rest.next]

ByteAt(data, k) == IF k + 1 <= Len(data) THEN data[k + 1] ELSE 0

\* The code of `width` bits at bit position pos, least significant bit first.
ReadCode(data, pos, width) ==
    LET b == pos \div 8
        raw == ByteAt(data, b) + 256 * ByteAt(data, b + 1) + 65536 * ByteAt(data, b + 2)
    IN  (raw \div Pow2(pos % 8)) % Pow2(width)

DecoderString(d, code) == IF code < d.clear THEN <<code>> ELSE d.dict[code]

NewDecoder(minCodeSize) ==
    [clear |-> Pow2(minCodeSize), minCodeSize |-> minCodeSize,
     dict |-> [c \in 0..4095 |-> <<>>], next |-> Pow2(minCodeSize) + 2,
     width |-> minCodeSize + 1, prev |-> -1, pos |-> 0, out |-> <<>>,
     done |-> FALSE, ok |-> TRUE, clears |-> 0]

DecodeStep(d, data) ==
    IF d.done THEN d
    ELSE IF d.pos + d.width > 8 * Len(data) THEN [d EXCEPT !.done = TRUE, !.ok = FALSE]
    ELSE LET v == ReadCode(data, d.pos, d.width)
             d1 == [d EXCEPT !.pos = d.pos + d.width]
         IN  IF v = d.clear
             THEN [d1 EXCEPT !.width = d.minCodeSize + 1, !.next = d.clear + 2,
                             !.prev = -1, !.clears = d.clears + 1]
             ELSE IF v = d.clear + 1 THEN [d1 EXCEPT !.done = TRUE]
             ELSE IF d.prev = -1
                  THEN IF v < d.clear
                       THEN [d1 EXCEPT !.out = d.out \o <<v>>, !.prev = v]
                       ELSE [d1 EXCEPT !.done = TRUE, !.ok = FALSE]
             ELSE IF v > d.next THEN [d1 EXCEPT !.done = TRUE, !.ok = FALSE]
             ELSE LET p == DecoderString(d, d.prev)
                      e == IF v < d.next THEN DecoderString(d, v) ELSE Append(p, p[1])
                      n == IF d.next < 4096 THEN d.next + 1 ELSE d.next
                  IN  [d1 EXCEPT !.out = d.out \o e,
                                 !.prev = v,
                                 !.dict = IF d.next < 4096
                                          THEN [d.dict EXCEPT ![d.next] = Append(p, e[1])]
                                          ELSE d.dict,
                                 !.next = n,
                                 !.width = IF n = Pow2(d.width) /\ d.width < 12 /\ n # d.next
                                           THEN d.width + 1 ELSE d.width]

RECURSIVE DecodeSteps(_, _, _)
DecodeSteps(d, data, n) ==
    IF n = 0 \/ d.done THEN d
    ELSE IF n = 1 THEN DecodeStep(d, data)
    ELSE DecodeSteps(DecodeSteps(d, data, n \div 2), data, n - (n \div 2))

\* The decoder's final state on an image data section (code size byte,
\* sub-blocks, terminator).
DecodeImageData(section) ==
    LET blocks == SubBlocks(section, 2)
        d == DecodeSteps(NewDecoder(section[1]), blocks.data, 8 * Len(blocks.data) + 1)
    IN  [d EXCEPT !.ok = d.ok /\ blocks.ok /\ blocks.next = Len(section) + 1]

(***************************************************************************)
(* State.                                                                  *)
(***************************************************************************)
VARIABLES
    \* GifEncoder fields
    width, height,
    transparent,        \* the transparent colour, null if none
    transparentIndex,
    repeat,
    delay,
    delayCall,          \* history: the last setDelay/setFramerate call, <<>> if none
    disposalMode,
    image,              \* the current frame (RGBA), <<>> before the first
    indexedPixels,      \* <<>> before the first frame
    colorPalette,       \* <<>> before the first frame
    usedEntry,          \* the set of indices i with usedEntry[i] = true
    firstFrame,
    sample,
    started,
    readableStreams,    \* the attached streams, as positions in `streams`
    byteBuffer,
    \* the environment: every stream ever attached, [chunks, ended, closed,
    \* since, at]: the chunks pushed to it, the number of push(null) it
    \* received, for each push(null) the number of chunks pushed before it,
    \* the number of bytes already flushed out of byteBuffer when it was
    \* attached, and the number of lifecycle calls made before
    streams,
    \* history: every byte written to byteBuffer, in write order
    written,
    \* history: the lifecycle calls made so far
    history,
    \* history: per addFrame call, [at, end, repeat, transparent,
    \* disposalMode, delayCall, length, started]: the part of `written` the
    \* call wrote, the values of repeat, transparent, disposalMode, delayCall
    \* and started during the call, and the length of the array given
    frames,
    \* history: the number of setter calls made since the initial state
    setterCalls,
    \* the LZW encoder on its own
    lzwPixels,   \* LZWEncoder.pixels: the indexed pixels handed to the encoder
    lzwOutput,   \* the ByteBuffer encode() writes to
    lzwState,    \* "new" after the constructor, "encoded" after encode()
    lzwEnc,      \* the encoder's fields after encode(), <<>> before
    \* the quantizer on its own
    nqPixels,    \* NeuQuant.pixels
    nq,          \* [networks, networkIndex] after the constructor
    nqMap,       \* the result of the last getColorMap(), <<>> before
    nqQuery,     \* the arguments <<b, g, r>> of the last lookupRGB(), <<>> before
    nqEntry,     \* the palette entry the last arguments were read from, or -1
    nqAnswer,    \* the result of the last lookupRGB()
    nqLookups,   \* history: the number of lookupRGB() calls made so far
    \* a byte buffer on its own
    bbuf,        \* the ByteBuffer, [data, size]
    bbAppended,  \* history: the bytes appended since the constructor or the last reset()
    bbCalls      \* history: the number of calls made so far

encVars == <<width, height, transparent, transparentIndex, repeat, delay, delayCall,
             disposalMode,
             image, indexedPixels, colorPalette, usedEntry, firstFrame, sample, started,
             readableStreams, byteBuffer, streams, written, history, frames,
             setterCalls>>

lzwVars == <<lzwPixels, lzwOutput, lzwState, lzwEnc>>

nqVars == <<nqPixels, nq, nqMap, nqQuery, nqEntry, nqAnswer, nqLookups>>

bbVars == <<bbuf, bbAppended, bbCalls>>

vars == <<encVars, lzwVars, nqVars, bbVars>>

(***************************************************************************)
(* GifEncoder.                                                             *)
(***************************************************************************)
\* `transparent: number | null = null`
null == -1

GIF_HEADER == <<71, 73, 70, 56, 57, 97>>
NETSCAPE_HEADER == <<78, 69, 84, 83, 67, 65, 80, 69, 50, 46, 48>>
PALETTE_SIZE == 7

\* array[k] of a typed array or Buffer given as a sequence; reading past
\* the end gives undefined, which the uses below turn into 0.
At(array, k) == IF k + 1 <= Len(array) THEN array[k + 1] ELSE 0

\* n / d cut to its integer part.
MathTrunc(n, d) == n \div d

\* Math.round(n / d) for n >= 0 and d > 0: the nearest integer, a half
\* rounded up.
MathRound(n, d) == (2 * n + d) \div (2 * d)

\* writeShort(pValue)
WriteShort(bb, pValue) ==
    WriteByte(WriteByte(bb, pValue % 256), (pValue \div 256) % 256)

\* getImagePixels(): the RGB bytes of the w * h pixels of the frame.
GetImagePixels(w, h, data) ==
    [k \in 1..(w * h * 3) |-> At(data, ((k - 1) \div 3) * 4 + ((k - 1) % 3)) % 256]

\* The frames given to addFrame: 2 x 1 images, a fully transparent light
\* grey pixel and an opaque dark pixel, and an array that holds one pixel
\* only.
FrameSize == <<2, 1>>

Images ==
    {<<200, 200, 200, 0, 200, 200, 200, 0>>,
     <<10, 20, 30, 255, 200, 200, 200, 0>>,
     <<10, 20, 30, 255>>}

\* new NeuQuant(pixels, sample) and its getColorMap() for the pixels of
\* every frame of the model, each computed once: [pixels, quantifier,
\* colorMap].
QuantizerEntry(pixels, quantifier) ==
    [pixels |-> pixels, quantifier |-> quantifier,
     colorMap |-> Forced(GetColorMap(quantifier))]

Quantizers ==
    {QuantizerEntry(Forced(GetImagePixels(FrameSize[1], FrameSize[2], i)),
                    NewNeuQuant(GetImagePixels(FrameSize[1], FrameSize[2], i), 10)) :
        i \in Images}

QuantizerOf(pixels) == CHOOSE t \in Quantizers : t.pixels = pixels

\* findClosest(color)
FindClosest(palette, used, color) ==
    LET r == (color \div 65536) % 256
        g == (color \div 256) % 256
        b == color % 256
        \* the iteration with i = 3 * t, index = i / 3 = t
        Step(acc, t) ==
            LET dr == r - (At(palette, 3 * t) % 256)
                dg == g - (At(palette, 3 * t + 1) % 256)
                db == b - (At(palette, 3 * t + 2) % 256)
                d == dr * dr + dg * dg + db * db
            IN  IF t \in used /\ d < acc[1] THEN <<d, t>> ELSE acc
    IN  ForRange(Step, <<256 * 256 * 256, 0>>, 0, ((Len(palette) + 2) \div 3) - 1)[2]

\* analyzePixels(), the mapping loop: indexedPixels[j] = lookupRGB(pixel j).
MapPixels(pixels, quantifier) ==
    Forced([j \in 1..(Len(pixels) \div 3) |->
               LookupRGB(quantifier, pixels[3 * j - 2] % 256,
                         pixels[3 * j - 1] % 256, pixels[3 * j] % 256)])

\* analyzePixels(), the mapping loop: usedEntry[index] = true.
MarkUsed(used, mapped) == used \cup {mapped[j] : j \in 1..Len(mapped)}

\* A transparency loop that rewrites no pixel.
RetargetNone(img, mapped, index) == mapped

\* analyzePixels(), the transparency loop: the pixels whose alpha byte is 0
\* take the transparent index.
Retarget(img, mapped, index) ==
    [j \in 1..Len(mapped) |->
        IF Len(img) >= 4 * j /\ img[4 * j] = 0 THEN index ELSE mapped[j]]

\* analyzePixels(), after the mapping loop.
AnalyzeTransparency(img, palette, mapped, used, transp, transpIndex) ==
    IF transp = null
    THEN [colorPalette |-> palette, indexedPixels |-> mapped,
          usedEntry |-> used, transparentIndex |-> transpIndex]
    ELSE [colorPalette |-> palette,
          indexedPixels |-> Retarget(img, mapped, FindClosest(palette, used, transp)),
          usedEntry |-> used,
          transparentIndex |-> FindClosest(palette, used, transp)]

\* analyzePixels(): [colorPalette, indexedPixels, usedEntry, transparentIndex]
AnalyzeWith(img, palette, mapped, used, transp, transpIndex) ==
    AnalyzeTransparency(img, palette, mapped, MarkUsed(used, mapped), transp, transpIndex)

AnalyzePixels(pixels, img, used, transp, transpIndex) ==
    AnalyzeWith(img, QuantizerOf(pixels).colorMap,
                MapPixels(pixels, QuantizerOf(pixels).quantifier),
                used, transp, transpIndex)

\* writeLogicalScreenDescriptor()
WriteLogicalScreenDescriptor(bb, w, h) ==
    WriteByte(WriteByte(WriteByte(WriteShort(WriteShort(bb, w), h),
                                  128 + 112 + PALETTE_SIZE), 0), 0)

\* A writePalette without the padding.
WritePaletteNoPadding(bb, palette) == WriteBytes(bb, palette, 0, Len(palette))

\* writePalette()
WritePalette(bb, palette) ==
    WriteTimes(WriteBytes(bb, palette, 0, Len(palette)), 0, 3 * 256 - Len(palette))

\* A writeNetscapeExtension that writes the high byte of the count first.
WriteNetscapeExtensionHighFirst(bb, rep) ==
    LET b1 == WriteByte(WriteByte(WriteByte(bb, 33), 255), 11)
        b2 == WriteBytes(b1, NETSCAPE_HEADER, 0, Len(NETSCAPE_HEADER))
        b3 == WriteByte(WriteByte(b2, 3), 1)
    IN  WriteByte(WriteByte(WriteByte(b3, (rep \div 256) % 256), rep % 256), 0)

\* writeNetscapeExtension()
WriteNetscapeExtension(bb, rep) ==
    LET b1 == WriteByte(WriteByte(WriteByte(bb, 33), 255), 11)
        b2 == WriteBytes(b1, NETSCAPE_HEADER, 0, Len(NETSCAPE_HEADER))
        b3 == WriteByte(WriteByte(b2, 3), 1)
    IN  WriteByte(WriteShort(b3, rep), 0)

\* A writeGraphicControlExtension in which the user's disposal code does
\* not override the one forced by a transparent colour.
WriteGraphicControlExtensionForced(bb, transp, mode, dly, transpIndex) ==
    LET transparency == IF transp = null THEN 0 ELSE 1
        dispose0 == IF transp = null THEN 0 ELSE 2
        dispose == IF mode >= 0 /\ transp = null THEN mode % 8 ELSE dispose0
        fields == dispose * 4 + transparency
        b1 == WriteByte(WriteByte(WriteByte(bb, 33), 249), 4)
        b2 == WriteShort(WriteByte(b1, fields), dly)
    IN  WriteByte(WriteByte(b2, transpIndex), 0)

\* writeGraphicControlExtension()
WriteGraphicControlExtension(bb, transp, mode, dly, transpIndex) ==
    LET transparency == IF transp = null THEN 0 ELSE 1
        dispose0 == IF transp = null THEN 0 ELSE 2
        dispose == IF mode >= 0 THEN mode % 8 ELSE dispose0
        fields == dispose * 4 + transparency
        b1 == WriteByte(WriteByte(WriteByte(bb, 33), 249), 4)
        b2 == WriteShort(WriteByte(b1, fields), dly)
    IN  WriteByte(WriteByte(b2, transpIndex), 0)

\* A writeImageDescriptor that never sets the local colour table flag.
WriteImageDescriptorGlobal(bb, w, h, first) ==
    LET b1 == WriteShort(WriteShort(WriteByte(bb, 44), 0), 0)
        b2 == WriteShort(WriteShort(b1, w), h)
    IN  WriteByte(b2, 0)

\* writeImageDescriptor()
WriteImageDescriptor(bb, w, h, first) ==
    LET b1 == WriteShort(WriteShort(WriteByte(bb, 44), 0), 0)
        b2 == WriteShort(WriteShort(b1, w), h)
    IN  WriteByte(b2, IF first THEN 0 ELSE 128 + PALETTE_SIZE)

\* writePixels()
WritePixels(bb, w, h, indexed, colorDepth) == LZWEncode(w, h, indexed, colorDepth, bb)

\* emit(): the streams after the call.
EmitStreams(strs, attached, bb) ==
    IF Len(attached) = 0 \/ Len(bb.data) = 0 THEN strs
    ELSE [k \in 1..Len(strs) |->
             IF \E a \in 1..Len(attached) : attached[a] = k
             THEN [strs[k] EXCEPT !.chunks = Append(@, ToArray(bb))]
             ELSE strs[k]]

\* An emit() that leaves the pushed bytes in the buffer.
EmitBufferKeep(attached, bb) == bb

\* emit(): the byte buffer after the call.
EmitBuffer(attached, bb) ==
    IF Len(attached) = 0 \/ Len(bb.data) = 0 THEN bb ELSE ResetBuffer(bb)

\* An end() that pushes null without the emit before.
EndStreamsNoEmit(strs, attached, bb) ==
    [k \in 1..Len(strs) |->
        IF \E a \in 1..Len(attached) : attached[a] = k
        THEN [strs[k] EXCEPT !.ended = @ + 1,
                             !.closed = Append(@, Len(strs[k].chunks))]
        ELSE strs[k]]

\* An end() that pushes null to each stream before the emit.
EndStreamsNullFirst(strs, attached, bb) ==
    IF Len(attached) = 0 THEN strs
    ELSE EmitStreams(EndStreamsNoEmit(strs, attached, bb), attached, bb)

\* end(): the streams after the call (emit, then push(null) to each).
EndStreams(strs, attached, bb) ==
    IF Len(attached) = 0 THEN strs
    ELSE LET emitted == EmitStreams(strs, attached, bb)
         IN  [k \in 1..Len(strs) |->
                 IF \E a \in 1..Len(attached) : attached[a] = k
                 THEN [emitted[k] EXCEPT !.ended = @ + 1,
                                         !.closed = Append(@, Len(emitted[k].chunks))]
                 ELSE emitted[k]]

\* The bytes a call appended to the buffer `before`, giving `after`.
Appended(before, after) == SubSeq(after.data, Len(before.data) + 1, Len(after.data))

\* An addFrame that writes the NETSCAPE2.0 extension before every frame.
FrameBytesRepeatEach(bb, w, h, a, first, rep, transp, mode, dly) ==
    LET b0 == IF first
              THEN WritePalette(WriteLogicalScreenDescriptor(bb, w, h), a.colorPalette)
              ELSE bb
        b1 == IF rep >= 0 THEN WriteNetscapeExtension(b0, rep) ELSE b0
        b2 == WriteGraphicControlExtension(b1, transp, mode, dly, a.transparentIndex)
        b3 == WriteImageDescriptor(b2, w, h, first)
        b4 == IF ~first THEN WritePalette(b3, a.colorPalette) ELSE b3
    IN  WritePixels(b4, w, h, a.indexedPixels, 8)

\* The bytes addFrame writes, in order, on the buffer bb.
FrameBytes(bb, w, h, a, first, rep, transp, mode, dly) ==
    LET b1 == IF first
              THEN LET lsd == WritePalette(WriteLogicalScreenDescriptor(bb, w, h),
                                           a.colorPalette)
                   IN  IF rep >= 0 THEN WriteNetscapeExtension(lsd, rep) ELSE lsd
              ELSE bb
        b2 == WriteGraphicControlExtension(b1, transp, mode, dly, a.transparentIndex)
        b3 == WriteImageDescriptor(b2, w, h, first)
        b4 == IF ~first THEN WritePalette(b3, a.colorPalette) ELSE b3
    IN  WritePixels(b4, w, h, a.indexedPixels, 8)

(***************************************************************************)
(* The encoder's operations.                                               *)
(***************************************************************************)
\* Bounds of the encoder runs.
MaxFrames == 2
MaxCalls == 4
MaxStreams == 1
MaxSetterCalls == 1

TransparentColors == {null, 660510}
RepeatValues == {-1, 0, 258}
\* setDelay(ms), setFramerate(fps), setDispose(code), setQuality(quality)
DelayValues == {250, 2605}
Framerates == {20, 8}
DisposalCodes == {0, 5}
Qualities == {0, 1, 31}

BBIdle ==
    /\ bbuf = NewByteBuffer
    /\ bbAppended = <<>>
    /\ bbCalls = 0

LZWIdle ==
    /\ lzwPixels = <<>>
    /\ lzwOutput = NewByteBuffer
    /\ lzwState = "idle"
    /\ lzwEnc = <<>>

NQIdle ==
    /\ nqPixels = <<>>
    /\ nq = <<>>
    /\ nqMap = <<>>
    /\ nqQuery = <<>>
    /\ nqEntry = -1
    /\ nqAnswer = -1
    /\ nqLookups = 0

EncIdle ==
    /\ width = 0 /\ height = 0
    /\ transparent = null /\ transparentIndex = 0
    /\ repeat = -1 /\ delay = 0 /\ delayCall = <<>> /\ disposalMode = -1
    /\ image = <<>> /\ indexedPixels = <<>> /\ colorPalette = <<>>
    /\ usedEntry = {}
    /\ firstFrame = TRUE /\ sample = 10 /\ started = FALSE
    /\ readableStreams = <<>> /\ byteBuffer = NewByteBuffer
    /\ streams = <<>> /\ written = <<>> /\ history = <<>> /\ frames = <<>>
    /\ setterCalls = 0

\* new GifEncoder(width, height)
Init ==
    /\ width = FrameSize[1] /\ height = FrameSize[2]
    /\ transparent = null /\ transparentIndex = 0
    /\ repeat = -1 /\ delay = 0 /\ delayCall = <<>> /\ disposalMode = -1
    /\ image = <<>> /\ indexedPixels = <<>> /\ colorPalette = <<>>
    /\ usedEntry = {}
    /\ firstFrame = TRUE /\ sample = 10 /\ started = FALSE
    /\ readableStreams = <<>> /\ byteBuffer = NewByteBuffer
    /\ streams = <<>> /\ written = <<>> /\ history = <<>> /\ frames = <<>>
    /\ setterCalls = 0
    /\ LZWIdle /\ NQIdle /\ BBIdle

\* createReadStream()
CreateReadStream ==
    /\ Len(streams) < MaxStreams
    /\ streams' = Append(streams, [chunks |-> <<>>, ended |-> 0, closed |-> <<>>,
                                   since |-> Len(written) - Len(byteBuffer.data),
                                   at |-> Len(history)])
    /\ readableStreams' = Append(readableStreams, Len(streams) + 1)
    /\ UNCHANGED <<width, height, transparent, transparentIndex, repeat, delay, delayCall,
                   disposalMode, image, indexedPixels, colorPalette, usedEntry,
                   firstFrame, sample, started, byteBuffer, written, history, frames,
                   setterCalls>>

\* setRepeat(repeat)
SetRepeat ==
    /\ setterCalls < MaxSetterCalls
    /\ setterCalls' = setterCalls + 1
    /\ \E n \in RepeatValues : n # repeat /\ repeat' = n
    /\ UNCHANGED <<width, height, transparent, transparentIndex, delay, delayCall,
                   disposalMode, image, indexedPixels, colorPalette, usedEntry,
                   firstFrame, sample, started, readableStreams, byteBuffer, streams,
                   written, history, frames>>

\* setTransparent(color)
SetTransparent ==
    /\ setterCalls < MaxSetterCalls
    /\ setterCalls' = setterCalls + 1
    /\ \E c \in TransparentColors : c # transparent /\ transparent' = c
    /\ UNCHANGED <<width, height, transparentIndex, repeat, delay, delayCall,
                   disposalMode, image, indexedPixels, colorPalette, usedEntry,
                   firstFrame, sample, started, readableStreams, byteBuffer, streams,
                   written, history, frames>>

\* setDelay(delay)
SetDelay ==
    /\ setterCalls < MaxSetterCalls
    /\ setterCalls' = setterCalls + 1
    /\ \E ms \in DelayValues :
        /\ delayCall # <<"setDelay", ms>>
        /\ delay' = MathRound(ms, 10)
        /\ delayCall' = <<"setDelay", ms>>
    /\ UNCHANGED <<width, height, transparent, transparentIndex, repeat,
                   disposalMode, image, indexedPixels, colorPalette, usedEntry,
                   firstFrame, sample, started, readableStreams, byteBuffer, streams,
                   written, history, frames>>

\* setFramerate(fps)
SetFramerate ==
    /\ setterCalls < MaxSetterCalls
    /\ setterCalls' = setterCalls + 1
    /\ \E fps \in Framerates :
        /\ delayCall # <<"setFramerate", fps>>
        /\ delay' = MathRound(100, fps)
        /\ delayCall' = <<"setFramerate", fps>>
    /\ UNCHANGED <<width, height, transparent, transparentIndex, repeat,
                   disposalMode, image, indexedPixels, colorPalette, usedEntry,
                   firstFrame, sample, started, readableStreams, byteBuffer, streams,
                   written, history, frames>>

\* setDispose(disposalCode)
SetDispose ==
    /\ setterCalls < MaxSetterCalls
    /\ setterCalls' = setterCalls + 1
    /\ \E disposalCode \in DisposalCodes :
        /\ disposalCode # disposalMode
        /\ disposalMode' = IF disposalCode >= 0 THEN disposalCode ELSE disposalMode
    /\ UNCHANGED <<width, height, transparent, transparentIndex, repeat, delay, delayCall,
                   image, indexedPixels, colorPalette, usedEntry,
                   firstFrame, sample, started, readableStreams, byteBuffer, streams,
                   written, history, frames>>

\* setQuality(quality)
SetQuality ==
    /\ setterCalls < MaxSetterCalls
    /\ setterCalls' = setterCalls + 1
    /\ \E quality \in Qualities :
        /\ sample' = IF quality < 1 THEN 1 ELSE quality
        /\ sample' # sample
    /\ UNCHANGED <<width, height, transparent, transparentIndex, repeat, delay, delayCall,
                   disposalMode, image, indexedPixels, colorPalette, usedEntry,
                   firstFrame, started, readableStreams, byteBuffer, streams,
                   written, history, frames>>

\* start()
Start ==
    /\ Len(history) < MaxCalls
    /\ LET bb == WriteBytes(byteBuffer, GIF_HEADER, 0, Len(GIF_HEADER))
       IN  /\ written' = written \o Appended(byteBuffer, bb)
           /\ streams' = EmitStreams(streams, readableStreams, bb)
           /\ byteBuffer' = EmitBuffer(readableStreams, bb)
    /\ started' = TRUE
    /\ history' = Append(history, "start")
    /\ UNCHANGED <<width, height, transparent, transparentIndex, repeat, delay, delayCall,
                   disposalMode, image, indexedPixels, colorPalette, usedEntry,
                   firstFrame, sample, readableStreams, frames, setterCalls>>

\* addFrame(imageData), imageData a Uint8ClampedArray of width * height
\* RGBA pixels on which the quantizer's learning loop runs once.
AddFrame ==
    /\ Len(history) < MaxCalls
    /\ Len(frames) < MaxFrames
    /\ \E imageData \in Images :
        \E pixels \in {GetImagePixels(width, height, imageData)} :
        \E a \in {AnalyzePixels(pixels, imageData, usedEntry, transparent,
                                transparentIndex)} :
        \E bb \in {FrameBytes(byteBuffer, width, height, a, firstFrame, repeat,
                              transparent, disposalMode, delay)} :
            /\ LearnIterations(Len(pixels), sample) = 1
            /\ image' = imageData
            /\ colorPalette' = a.colorPalette
            /\ indexedPixels' = a.indexedPixels
            /\ usedEntry' = a.usedEntry
            /\ transparentIndex' = a.transparentIndex
            /\ written' = written \o Appended(byteBuffer, bb)
            /\ frames' = Append(frames, [at |-> Len(written),
                                         end |-> Len(written) + Len(Appended(byteBuffer, bb)),
                                         repeat |-> repeat,
                                         transparent |-> transparent,
                                         disposalMode |-> disposalMode,
                                         delayCall |-> delayCall,
                                         length |-> Len(imageData),
                                         started |-> started])
            /\ streams' = EmitStreams(streams, readableStreams, bb)
            /\ byteBuffer' = EmitBuffer(readableStreams, bb)
    /\ firstFrame' = FALSE
    /\ history' = Append(history, "addFrame")
    /\ UNCHANGED <<width, height, transparent, repeat, delay, delayCall, disposalMode, sample,
                   started, readableStreams, setterCalls>>

\* finish()
Finish ==
    /\ Len(history) < MaxCalls
    /\ LET bb == WriteByte(byteBuffer, 59)
       IN  /\ written' = written \o Appended(byteBuffer, bb)
           /\ streams' = EndStreams(streams, readableStreams, bb)
           /\ byteBuffer' = EmitBuffer(readableStreams, bb)
    /\ readableStreams' = <<>>
    /\ history' = Append(history, "finish")
    /\ UNCHANGED <<width, height, transparent, transparentIndex, repeat, delay, delayCall,
                   disposalMode, image, indexedPixels, colorPalette, usedEntry,
                   firstFrame, sample, started, frames, setterCalls>>

Next ==
    \/ (CreateReadStream /\ UNCHANGED <<lzwVars, nqVars, bbVars>>)
    \/ (SetRepeat /\ UNCHANGED <<lzwVars, nqVars, bbVars>>)
    \/ (SetTransparent /\ UNCHANGED <<lzwVars, nqVars, bbVars>>)
    \/ (Start /\ UNCHANGED <<lzwVars, nqVars, bbVars>>)
    \/ (AddFrame /\ UNCHANGED <<lzwVars, nqVars, bbVars>>)
    \/ (Finish /\ UNCHANGED <<lzwVars, nqVars, bbVars>>)

Spec == Init /\ [][Next]_vars

(***************************************************************************)
(* The encoder's settings: an encoder on which setters were called after   *)
(* the constructor, then frames added and setters called in any order,     *)
(* with no stream attached.                                                *)
(***************************************************************************)
\* The values of <<delay, delayCall>> after the constructor and after a
\* setDelay or setFramerate call.
DelaySettings ==
    {<<0, <<>> >>}
        \cup {<<MathRound(ms, 10), <<"setDelay", ms>> >> : ms \in DelayValues}
        \cup {<<MathRound(100, fps), <<"setFramerate", fps>> >> : fps \in Framerates}

\* new GifEncoder(width, height), then setTransparent, setDispose, setDelay
\* or setFramerate calls, or none
InitSettings ==
    /\ width = FrameSize[1] /\ height = FrameSize[2]
    /\ transparent \in TransparentColors /\ transparentIndex = 0
    /\ repeat = -1
    /\ \E d \in DelaySettings : delay = d[1] /\ delayCall = d[2]
    /\ disposalMode \in {-1} \cup DisposalCodes
    /\ image = <<>> /\ indexedPixels = <<>> /\ colorPalette = <<>>
    /\ usedEntry = {}
    /\ firstFrame = TRUE /\ sample = 10 /\ started = FALSE
    /\ readableStreams = <<>> /\ byteBuffer = NewByteBuffer
    /\ streams = <<>> /\ written = <<>> /\ history = <<>> /\ frames = <<>>
    /\ setterCalls = 0
    /\ LZWIdle /\ NQIdle /\ BBIdle

NextSettings ==
    \/ (SetRepeat /\ UNCHANGED <<lzwVars, nqVars, bbVars>>)
    \/ (SetTransparent /\ UNCHANGED <<lzwVars, nqVars, bbVars>>)
    \/ (SetDelay /\ UNCHANGED <<lzwVars, nqVars, bbVars>>)
    \/ (SetFramerate /\ UNCHANGED <<lzwVars, nqVars, bbVars>>)
    \/ (SetDispose /\ UNCHANGED <<lzwVars, nqVars, bbVars>>)
    \/ (SetQuality /\ UNCHANGED <<lzwVars, nqVars, bbVars>>)
    \/ (AddFrame /\ UNCHANGED <<lzwVars, nqVars, bbVars>>)

SpecSettings == InitSettings /\ [][NextSettings]_vars

(***************************************************************************)
(* Properties of the encoder.                                              *)
(***************************************************************************)
\* The concatenation of the chunks pushed to a stream.
RECURSIVE Flatten(_)
Flatten(chunks) ==
    IF chunks = <<>> THEN <<>> ELSE Head(chunks) \o Flatten(Tail(chunks))

\* start(), addFrame() x n (n >= 1), finish()
Canonical(h) ==
    /\ Len(h) >= 3
    /\ h[1] = "start"
    /\ h[Len(h)] = "finish"
    /\ \A k \in 2..(Len(h) - 1) : h[k] = "addFrame"

\* A prefix of start(), addFrame() x n (n >= 0), finish()
CanonicalPrefix(h) ==
    \A k \in 1..Len(h) :
        /\ (k = 1) = (h[k] = "start")
        /\ h[k] = "finish" => k = Len(h)

\* The n bytes written after the first o.
BytesAt(o, n) == SubSeq(written, o + 1, o + n)

LSDBytes ==
    <<width % 256, width \div 256, height % 256, height \div 256, 247, 0, 0>>

NetscapeBytes(rep) ==
    <<33, 255, 11, 78, 69, 84, 83, 67, 65, 80, 69, 50, 46, 48, 3, 1,
      rep % 256, rep \div 256, 0>>

IsGraphicControl(o) ==
    /\ written[o + 1] = 33 /\ written[o + 2] = 249 /\ written[o + 3] = 4
    /\ written[o + 8] = 0

IsDescriptor(o, packed) ==
    BytesAt(o, 10) = <<44, 0, 0, 0, 0, width % 256, width \div 256,
                       height % 256, height \div 256, packed>>

\* An image data section from offset o to the end of the frame.
IsImageData(o, end) ==
    /\ written[o + 1] = 8
    /\ SubBlocks(written, o + 2).ok
    /\ SubBlocks(written, o + 2).next = end + 1

FirstFrameLayout(f, n) ==
    /\ BytesAt(f.at, 7) = LSDBytes
    /\ f.repeat >= 0 => BytesAt(f.at + 7 + 768, 19) = NetscapeBytes(f.repeat)
    /\ IsGraphicControl(f.at + 7 + 768 + n)
    /\ IsDescriptor(f.at + 7 + 768 + n + 8, 0)
    /\ IsImageData(f.at + 7 + 768 + n + 18, f.end)

LaterFrameLayout(f) ==
    /\ IsGraphicControl(f.at)
    /\ IsDescriptor(f.at + 8, 135)
    /\ IsImageData(f.at + 18 + 768, f.end)

\* C1: after start(), addFrame() x n (n >= 1), finish(), the output of a
\* sink that was attached from the first flushed byte to finish() begins
\* with "GIF89a" and ends with 0x3B.
HeaderAndTrailer ==
    \A k \in DOMAIN streams :
        (Canonical(history) /\ streams[k].since = 0 /\ streams[k].ended > 0) =>
            /\ Len(Flatten(streams[k].chunks)) > 6
            /\ SubSeq(Flatten(streams[k].chunks), 1, 6) = <<71, 73, 70, 56, 57, 97>>
            /\ Flatten(streams[k].chunks)[Len(Flatten(streams[k].chunks))] = 59

\* C1 witness: a finished two-frame run with a sink attached before start().
HeaderAndTrailerWitness ==
    /\ history = <<"start", "addFrame", "addFrame", "finish">>
    /\ \E k \in DOMAIN streams :
        /\ streams[k].at = 0
        /\ streams[k].ended > 0
        /\ Len(Flatten(streams[k].chunks)) > 1000

\* C3: over start(), addFrame()*, finish(), the chunks delivered to a sink
\* attached before start() are, concatenated, exactly the bytes written to
\* the buffer, in write order.
SinkReceivesWritten ==
    \A k \in DOMAIN streams :
        (CanonicalPrefix(history) /\ streams[k].at = 0) =>
            Flatten(streams[k].chunks) = written

\* C3 witness: a sink attached before start() that received four chunks,
\* one per call of a finished two-frame run.
SinkReceivesWrittenWitness ==
    /\ Canonical(history)
    /\ \E k \in DOMAIN streams :
        /\ streams[k].at = 0
        /\ Len(streams[k].chunks) = 4
        /\ Len(written) > 1000

\* C4: the first addFrame() call writes the Logical Screen Descriptor, the
\* 768-byte global table, the NETSCAPE extension iff repeat >= 0, then the
\* graphic control extension, a descriptor of packed byte 0x00 and the
\* image data; every later call writes the graphic control extension, a
\* descriptor of packed byte 0x87, a 768-byte local table and the image
\* data, and nothing else.
FrameLayout ==
    \A k \in DOMAIN frames :
        IF k = 1
        THEN FirstFrameLayout(frames[k], IF frames[k].repeat >= 0 THEN 19 ELSE 0)
        ELSE LaterFrameLayout(frames[k])

\* C4 witness: two frames written, the first while repeat >= 0.
FrameLayoutWitness ==
    /\ Len(frames) = 2
    /\ frames[1].repeat >= 0

\* C6: the colour table of the latest frame (global for the first frame,
\* local for a later one) is the palette bytes then zero bytes up to 768
\* bytes, and the next block starts right after it.
ColorTablePadded ==
    Len(frames) >= 1 =>
        /\ Len(written) > frames[Len(frames)].at + (IF Len(frames) = 1 THEN 7 ELSE 18) + 768
        /\ BytesAt(frames[Len(frames)].at + (IF Len(frames) = 1 THEN 7 ELSE 18), 768)
              = [i \in 1..768 |->
                    IF i <= Len(colorPalette) THEN colorPalette[i] % 256 ELSE 0]
        /\ written[frames[Len(frames)].at + (IF Len(frames) = 1 THEN 7 ELSE 18) + 769]
              = (IF Len(frames) = 1 THEN 33 ELSE 8)

\* C6 witness: a local table written from a palette shorter than 768.
ColorTablePaddedWitness ==
    /\ Len(frames) = 2
    /\ Len(colorPalette) < 768
    /\ Len(colorPalette) > 0

\* C7: after addFrame() every indexed pixel is an index below 256 whose
\* usedEntry is true.
PaletteCoverage ==
    \A j \in DOMAIN indexedPixels :
        /\ indexedPixels[j] \in 0..255
        /\ indexedPixels[j] \in usedEntry

\* The offsets of `written` at which a NETSCAPE2.0 application extension
\* starts.
NetscapeOffsets ==
    {o \in 0..(Len(written) - 19) :
        /\ written[o + 1] = 33
        /\ written[o + 2] = 255
        /\ BytesAt(o, 16) = <<33, 255, 11, 78, 69, 84, 83, 67, 65, 80, 69, 50, 46, 48, 3, 1>>}

\* C11: the bytes written hold a NETSCAPE2.0 extension iff a first frame
\* was added while repeat >= 0; there is one, written by that call after
\* the global table, and its loop count is repeat, low byte first.
NetscapeIffRepeat ==
    /\ (NetscapeOffsets # {}) = (Len(frames) >= 1 /\ frames[1].repeat >= 0)
    /\ \A o \in NetscapeOffsets :
        /\ o = frames[1].at + 7 + 768
        /\ written[o + 17] + 256 * written[o + 18] = frames[1].repeat
        /\ written[o + 19] = 0

\* C11 witness: two frames added after setRepeat(258), one extension
\* written.
NetscapeIffRepeatWitness ==
    /\ Len(frames) = 2
    /\ frames[1].repeat = 258
    /\ Cardinality(NetscapeOffsets) = 1

\* The offset of `written` at which the graphic control extension of the
\* k-th frame starts.
GraphicControlAt(k) ==
    IF k = 1
    THEN frames[k].at + 7 + 768 + (IF frames[k].repeat >= 0 THEN 19 ELSE 0)
    ELSE frames[k].at

\* The packed byte of the graphic control extension of the k-th frame.
PackedFields(k) == written[GraphicControlAt(k) + 4]

DefaultDisposal ==
    \A k \in DOMAIN frames :
        frames[k].disposalMode = -1 =>
            (PackedFields(k) \div 4) % 8 =
                (IF frames[k].transparent # null THEN 0 ELSE 2)

\* The index lookupRGB returns for the j-th pixel of the current frame.
LookupOfPixel(j) ==
    MapPixels(GetImagePixels(width, height, image),
              QuantizerOf(GetImagePixels(width, height, image)).quantifier)[j]

\* C14: after a frame was added while a transparent colour was set, every
\* pixel whose alpha byte is 0 has the index transparentIndex, every other
\* pixel has the index lookupRGB returns for it, and transparentIndex is
\* the transparent index byte of the frame's graphic control extension.
TransparencyRewrite ==
    (Len(frames) >= 1 /\ frames[Len(frames)].transparent # null) =>
        /\ Len(indexedPixels) = width * height
        /\ \A j \in DOMAIN indexedPixels :
            IF Len(image) >= 4 * j /\ image[4 * j] = 0
            THEN indexedPixels[j] = transparentIndex
            ELSE indexedPixels[j] = LookupOfPixel(j)
        /\ written[GraphicControlAt(Len(frames)) + 7] = transparentIndex

\* C14 witness: a frame of one opaque and one fully transparent pixel added
\* while a transparent colour was set; the transparent pixel has another
\* index than the one lookupRGB returns for it.
TransparencyRewriteWitness ==
    /\ Len(frames) >= 1
    /\ frames[Len(frames)].transparent # null
    /\ image = <<10, 20, 30, 255, 200, 200, 200, 0>>
    /\ indexedPixels[2] # LookupOfPixel(2)
    /\ indexedPixels[2] = transparentIndex
    /\ transparentIndex > 0

\* The squared distance of the colour (0xRRGGBB) to the colour that the
\* quantizer of the current frame gives palette entry i, the neuron tagged i.
EntryDistance(color, i) ==
    LET q == QuantizerOf(GetImagePixels(width, height, image)).quantifier
        n == q.networks[CHOOSE l \in Neurons : q.networks[l][4] = i]
        dr == ((color \div 65536) % 256) - n[1]
        dg == ((color \div 256) % 256) - n[2]
        db == (color % 256) - n[3]
    IN  dr * dr + dg * dg + db * db

\* C25: after a frame was added while a transparent colour was set,
\* transparentIndex is an index whose usedEntry is true and whose palette
\* colour is, among all used entries of the 256-entry palette, at the least
\* squared RGB distance from the transparent colour.
ClosestUsedEntry ==
    (Len(frames) >= 1 /\ frames[Len(frames)].transparent # null) =>
        /\ transparentIndex \in usedEntry
        /\ \A i \in usedEntry :
               EntryDistance(frames[Len(frames)].transparent, transparentIndex)
                   <= EntryDistance(frames[Len(frames)].transparent, i)

\* The delay in hundredths of a second that a setDelay(ms) or
\* setFramerate(fps) call asks for: the integer nearest to ms / 10 or to
\* 100 / fps, the upper one of two; 0 if no call was made.
NearestDelay(call) ==
    IF call = <<>> THEN 0
    ELSE IF call[1] = "setDelay"
    THEN CHOOSE d \in 0..65535 : 10 * d - 5 <= call[2] /\ call[2] < 10 * d + 5
    ELSE CHOOSE d \in 0..65535 :
            (2 * d - 1) * call[2] <= 200 /\ 200 < (2 * d + 1) * call[2]

\* The delay field of the graphic control extension of the k-th frame, its
\* first byte as the low byte.
DelayField(k) ==
    written[GraphicControlAt(k) + 5] + 256 * written[GraphicControlAt(k) + 6]

\* C15: the delay field of every frame's graphic control extension is,
\* low byte first, the rounded delay of the last setDelay(ms) or
\* setFramerate(fps) call made before the frame was added (25 after
\* setDelay(250), 5 after setFramerate(20)), whatever calls were made
\* after it.
DelayInForce ==
    \A k \in DOMAIN frames :
        /\ DelayField(k) = NearestDelay(frames[k].delayCall)
        /\ frames[k].delayCall = <<"setDelay", 250>> => DelayField(k) = 25
        /\ frames[k].delayCall = <<"setFramerate", 20>> => DelayField(k) = 5

\* C15 witness: a frame added after setDelay(2605), then setFramerate(20),
\* then a second frame: the fields are 261 and 5.
DelayInForceWitness ==
    /\ Len(frames) = 2
    /\ frames[1].delayCall = <<"setDelay", 2605>>
    /\ frames[2].delayCall = <<"setFramerate", 20>>
    /\ DelayField(1) = 261
    /\ written[GraphicControlAt(1) + 5] = 5
    /\ DelayField(2) = 5

\* C16: a frame added to an encoder on which start() was never called
\* writes nothing, or is preceded by the GIF89a header: neither the bytes
\* written nor the output of a stream begin with the Logical Screen
\* Descriptor.
NeverStartsWithDescriptor ==
    /\ \A k \in DOMAIN frames :
        (~frames[k].started /\ frames[k].end > frames[k].at) =>
            \E o \in 0..(frames[k].at - 6) : BytesAt(o, 6) = GIF_HEADER
    /\ ~(Len(written) >= 7 /\ BytesAt(0, 7) = LSDBytes)
    /\ \A k \in DOMAIN streams :
        ~(/\ Len(Flatten(streams[k].chunks)) >= 7
          /\ SubSeq(Flatten(streams[k].chunks), 1, 7) = LSDBytes)

\* finish() was called.
Finished == \E k \in DOMAIN history : history[k] = "finish"

\* C17: once finish() was called, a call of start(), addFrame() or
\* finish() appends no byte to the buffer and changes no field of the
\* encoder.
FinishedIsFinal ==
    [][(Finished /\ Len(history') > Len(history)) =>
          /\ written' = written
          /\ byteBuffer' = byteBuffer
          /\ <<transparentIndex, image, indexedPixels, colorPalette, usedEntry,
               firstFrame, started, readableStreams>>'
                = <<transparentIndex, image, indexedPixels, colorPalette, usedEntry,
                    firstFrame, started, readableStreams>>]_vars

\* C18: an addFrame() call given an array whose length is not
\* 4 * width * height writes no byte.
FrameSizeChecked ==
    \A k \in DOMAIN frames :
        frames[k].length # 4 * width * height => frames[k].end = frames[k].at

\* The last byte of the last chunk pushed to a stream, -1 if there is none.
LastByte(stream) ==
    IF stream.chunks = <<>> \/ stream.chunks[Len(stream.chunks)] = <<>> THEN -1
    ELSE stream.chunks[Len(stream.chunks)][Len(stream.chunks[Len(stream.chunks)])]

SampleInRange == sample \in 1..30

\* C26: for an input of fewer than 1509 bytes and a sample factor in
\* 1..30, the learning loop of the quantizer of a frame takes the step 3
\* and runs length / 3 times, once on every pixel.
TrainsEveryPixel ==
    (/\ Len(frames) >= 1
     /\ Len(GetImagePixels(width, height, image)) < 1509
     /\ sample \in 1..30) =>
        /\ LearnStep(Len(GetImagePixels(width, height, image))) = 3
        /\ LearnPositions(Len(GetImagePixels(width, height, image)), sample) =
               [k \in 1..(Len(GetImagePixels(width, height, image)) \div 3) |->
                   3 * (k - 1)]

\* C27: when findClosest runs for a frame, usedEntry is true only at
\* indices that lookupRGB returned for a pixel of that frame; no entry of
\* an earlier frame is carried over.
UsedEntryOfFrame ==
    (Len(frames) >= 1 /\ frames[Len(frames)].transparent # null) =>
        usedEntry \subseteq {LookupOfPixel(j) : j \in 1..(width * height)}

\* The bytes a later addFrame() call would have written in the step, had
\* repeat been n: the frame of the step, analysed as in the step.
LaterFrameWith(n) ==
    Appended(NewByteBuffer,
             FrameBytes(NewByteBuffer, width, height,
                        [colorPalette |-> colorPalette',
                         indexedPixels |-> indexedPixels',
                         usedEntry |-> usedEntry',
                         transparentIndex |-> transparentIndex'],
                        FALSE, n, transparent, disposalMode, delay))

\* C21: once the first frame was added, the bytes a call writes do not
\* depend on repeat: an addFrame() call writes the bytes it would write
\* under any other value of repeat, start() writes the header and
\* finish() the trailer.
RepeatIgnoredLater ==
    [][(~firstFrame /\ written' # written) =>
          /\ Len(written') > Len(written)
          /\ SubSeq(written', 1, Len(written)) = written
          /\ IF Len(frames') > Len(frames)
             THEN \A n \in RepeatValues :
                     SubSeq(written', Len(written) + 1, Len(written')) = LaterFrameWith(n)
             ELSE SubSeq(written', Len(written) + 1, Len(written'))
                     \in {GIF_HEADER, <<59>>}]_vars

\* C21 witness: two frames, the second added after a setRepeat call that
\* followed the first.
RepeatIgnoredLaterWitness ==
    /\ Len(frames) = 2
    /\ frames[1].repeat = -1
    /\ frames[2].repeat = 258
    /\ frames[2].end > frames[2].at + 768

(***************************************************************************)
(* A byte buffer on its own: new ByteBuffer(), then writeByte, writeTimes, *)
(* writeBytes and reset calls.                                             *)
(***************************************************************************)
MaxBufferCalls == 3

BufferBytes == {7, 255}
\* The arguments <<byte, times>> of writeTimes
BufferRuns == {<<7, 0>>, <<7, 8191>>, <<255, 8192>>, <<7, 8200>>, <<255, 20000>>}
\* The arguments <<bytes, start, end>> of writeBytes
BufferSlices ==
    {<<(<<1, 2, 3>>), 0, 3>>, <<(<<1, 2, 3>>), 1, 3>>, <<(<<1, 2, 3>>), 2, 2>>,
     <<[k \in 1..8191 |-> k % 251], 0, 8191>>}

\* new ByteBuffer()
BBInit ==
    /\ bbuf = NewByteBuffer
    /\ bbAppended = <<>>
    /\ bbCalls = 0
    /\ EncIdle /\ LZWIdle /\ NQIdle

\* writeByte(byte)
BBWriteByte ==
    /\ bbCalls < MaxBufferCalls
    /\ \E byte \in BufferBytes :
        /\ bbuf' = WriteByte(bbuf, byte)
        /\ bbAppended' = Append(bbAppended, byte)
    /\ bbCalls' = bbCalls + 1
    /\ UNCHANGED <<encVars, lzwVars, nqVars>>

\* writeTimes(byte, times)
BBWriteTimes ==
    /\ bbCalls < MaxBufferCalls
    /\ \E run \in BufferRuns :
        /\ bbuf' = WriteTimes(bbuf, run[1], run[2])
        /\ bbAppended' = bbAppended \o [k \in 1..run[2] |-> run[1]]
    /\ bbCalls' = bbCalls + 1
    /\ UNCHANGED <<encVars, lzwVars, nqVars>>

\* writeBytes(bytes, start, end)
BBWriteBytes ==
    /\ bbCalls < MaxBufferCalls
    /\ \E slice \in BufferSlices :
        /\ bbuf' = WriteBytes(bbuf, slice[1], slice[2], slice[3])
        /\ bbAppended' = bbAppended \o SubSeq(slice[1], slice[2] + 1, slice[3])
    /\ bbCalls' = bbCalls + 1
    /\ UNCHANGED <<encVars, lzwVars, nqVars>>

\* reset()
BBReset ==
    /\ bbCalls < MaxBufferCalls
    /\ bbuf' = ResetBuffer(bbuf)
    /\ bbAppended' = <<>>
    /\ bbCalls' = bbCalls + 1
    /\ UNCHANGED <<encVars, lzwVars, nqVars>>

BBNext ==
    \/ BBWriteByte
    \/ BBWriteTimes
    \/ BBWriteBytes
    \/ BBReset

SpecBB == BBInit /\ [][BBNext]_vars

\* C22: toArray() is the sequence of the bytes appended since the
\* constructor or the last reset(), in call order, whatever reallocations
\* took place.
ViewIsAppended ==
    /\ ToArray(bbuf) = bbAppended
    /\ Len(ToArray(bbuf)) = Len(bbAppended)

\* C22 witness: 16400 bytes appended by three calls, the store reallocated
\* twice (8192 to 16384 to 32768).
ViewIsAppendedWitness ==
    /\ Len(bbAppended) = 16400
    /\ bbCalls = 3
    /\ bbuf.size = 32768

\* The least power of two that is at least x.
LeastPow2(x) ==
    CHOOSE p \in {Pow2(k) : k \in 0..20} :
        /\ p >= x
        /\ \A q \in {Pow2(k) : k \in 0..20} : q >= x => p <= q

LZWAlphabet == {0, 1, 255}

RECURSIVE SeqsOfLen(_, _)
SeqsOfLen(S, n) ==
    IF n = 0 THEN {<<>>}
    ELSE {Append(s, x) : s \in SeqsOfLen(S, n - 1), x \in S}

ShortInputs == UNION {SeqsOfLen(LZWAlphabet, n) : n \in 1..MaxLen}

LongSeeds == {1, 2}

\* Pseudo-random bytes: enough distinct pairs to fill the dictionary.
LongInput(seed) == [k \in 1..LongLen |-> ((k * k * seed) % 65521) % 256]

\* A run of one value and a short period: long dictionary strings.
RunInput(v) == [k \in 1..LongLen |-> IF k % 300 = 0 THEN 255 - v ELSE v]

LZWInputs ==
    ShortInputs \cup {LongInput(s) : s \in LongSeeds} \cup {RunInput(v) : v \in {0, 255}}

LZWInit ==
    /\ lzwPixels \in LZWInputs
    /\ lzwOutput = NewByteBuffer
    /\ lzwState = "new"
    /\ lzwEnc = <<>>
    /\ EncIdle /\ NQIdle /\ BBIdle

LZWEncodeCall ==
    /\ lzwState = "new"
    /\ lzwEnc' = Compress([NewLZWEncoder(8, lzwOutput) EXCEPT
                              !.out = WriteByte(lzwOutput, Max(2, 8))],
                          Max(2, 8) + 1, lzwPixels, Len(lzwPixels))
    /\ lzwOutput' = WriteByte(lzwEnc'.out, 0)
    /\ lzwState' = "encoded"
    /\ UNCHANGED <<lzwPixels, encVars, nqVars, bbVars>>

LZWNext == LZWEncodeCall

SpecLZW == LZWInit /\ [][LZWNext]_vars

\* C2: decoding the image data section written by encode() with the
\* reference decoder reproduces the input pixels exactly.
LZWRoundTrip ==
    lzwState = "encoded" =>
        LET d == DecodeImageData(ToArray(lzwOutput))
        IN  d.ok /\ d.out = lzwPixels

\* C2 witness: an encoded input that filled the dictionary, so that the
\* stream carries a second clear code.
LZWRoundTripWitness ==
    /\ lzwState = "encoded"
    /\ Len(lzwPixels) = LongLen
    /\ DecodeImageData(ToArray(lzwOutput)).clears >= 2

\* C10: the image data section encode() writes is the byte 8, then
\* sub-blocks of a length byte in 1..255 and that many data bytes, then the
\* terminator 0 as its last byte.
ImageDataFraming ==
    lzwState = "encoded" =>
        /\ ToArray(lzwOutput)[1] = 8
        /\ SubBlocks(ToArray(lzwOutput), 2).ok
        /\ SubBlocks(ToArray(lzwOutput), 2).next = Len(ToArray(lzwOutput)) + 1
        /\ ToArray(lzwOutput)[Len(ToArray(lzwOutput))] = 0
        /\ \A k \in DOMAIN SubBlocks(ToArray(lzwOutput), 2).lens :
               SubBlocks(ToArray(lzwOutput), 2).lens[k] \in 1..255

\* C10 witness: an encoded section of more than two sub-blocks, the first a
\* full packet.
ImageDataFramingWitness ==
    /\ lzwState = "encoded"
    /\ Len(SubBlocks(ToArray(lzwOutput), 2).lens) > 2
    /\ SubBlocks(ToArray(lzwOutput), 2).lens[1] = 254

\* C23: throughout compress the code width bitSize is between 9 and 12,
\* firstUnusedEntry is at most 4096, and every code passed to processOutput
\* is smaller than 2^bitSize at the call.
WidthAndCodesBounded ==
    lzwState = "encoded" =>
        /\ lzwEnc.bitSize \in 9..12
        /\ lzwEnc.firstUnusedEntry <= 4096
        /\ \A k \in DOMAIN lzwEnc.calls :
               /\ lzwEnc.calls[k].bitSize \in 9..12
               /\ lzwEnc.calls[k].firstUnusedEntry <= 4096
               /\ lzwEnc.calls[k].code < Pow2(lzwEnc.calls[k].bitSize)

\* C23 witness: a run of compress that put out a code of twelve bits while
\* the dictionary was full, and a code of nine bits after that.
WidthAndCodesBoundedWitness ==
    /\ lzwState = "encoded"
    /\ \E k \in DOMAIN lzwEnc.calls :
           /\ lzwEnc.calls[k].bitSize = 12
           /\ lzwEnc.calls[k].firstUnusedEntry = 4096
           /\ \E m \in DOMAIN lzwEnc.calls : m > k /\ lzwEnc.calls[m].bitSize = 9
           /\ \E m \in DOMAIN lzwEnc.calls : lzwEnc.calls[m].code >= 2048

\* The processOutput calls of the outer loop made with a full dictionary:
\* the calls but the last two (made after the loop) at which
\* firstUnusedEntry is 4096.
FullCalls ==
    {k \in 1..(Len(lzwEnc.calls) - 2) : lzwEnc.calls[k].firstUnusedEntry = 4096}

\* C24: when a new string must be added while the next free code is 4096,
\* compress puts out the pending prefix code and then the clear code 256,
\* both 12 bits wide, with every slot of the dictionary emptied and the
\* next free code back at 258; no entry is inserted in that step, and the
\* codes that follow are 9 bits wide until the width grows again.
ClearWhenFull ==
    lzwState = "encoded" =>
        \A k \in FullCalls :
            /\ lzwEnc.calls[k].bitSize = 12
            /\ lzwEnc.calls[k].code # 256
            /\ lzwEnc.calls[k + 1] =
                   [code |-> 256, bitSize |-> 12, firstUnusedEntry |-> 258,
                    entries |-> 0]
            /\ lzwEnc.calls[k + 2].firstUnusedEntry = 258
            /\ lzwEnc.calls[k + 2].entries = 0
            /\ \A m \in (k + 2)..Len(lzwEnc.calls) :
                   lzwEnc.calls[m].firstUnusedEntry <= 512 /\ m <= k + 256
                       => lzwEnc.calls[m].bitSize = 9

\* C24 witness: a run of compress that filled the dictionary and went on
\* for a hundred codes after it.
ClearWhenFullWitness ==
    /\ lzwState = "encoded"
    /\ \E k \in FullCalls :
           /\ lzwEnc.calls[k].entries = 3838
           /\ Len(lzwEnc.calls) >= k + 100

\* C30: in compress every index used on hashes and codes lies in 0..5002,
\* and the secondary probe ends, at the searched key or at an empty slot:
\* the table of 5003 slots never holds more than 3838 entries.
TableIndicesInRange ==
    lzwState = "encoded" =>
        /\ lzwEnc.slots[1] >= 0
        /\ lzwEnc.slots[2] <= 5002
        /\ ~lzwEnc.stuck
        /\ lzwEnc.entries <= 3838
        /\ \A k \in DOMAIN lzwEnc.calls : lzwEnc.calls[k].entries <= 3838

\* C30 witness: a run of compress that held 3838 entries and whose
\* secondary probe went past the greatest primary index, 4095.
TableIndicesInRangeWitness ==
    /\ lzwState = "encoded"
    /\ lzwEnc.slots[2] > 4095
    /\ \E k \in DOMAIN lzwEnc.calls : lzwEnc.calls[k].entries = 3838

(***************************************************************************)
(* The quantizer on its own: new NeuQuant(pixels, 10) on one pixel, then   *)
(* getColorMap() and lookupRGB() calls.                                    *)
(***************************************************************************)
TrainingColors ==
    {<<200, 200, 200>>, <<10, 20, 30>>, <<40, 40, 40>>, <<255, 0, 128>>,
     <<0, 0, 3>>, <<3, 250, 128>>}

QueryLevels == {0, 40, 200, 255}

EntryIndices == {0, 20, 40, 41, 84, 85, 86, 200, 255}

MaxLookups == 1

NQInit ==
    /\ nqPixels \in TrainingColors
    /\ nq = NewNeuQuant(nqPixels, 10)
    /\ nqMap = <<>>
    /\ nqQuery = <<>>
    /\ nqEntry = -1
    /\ nqAnswer = -1
    /\ nqLookups = 0
    /\ EncIdle /\ LZWIdle /\ BBIdle

\* getColorMap()
NQGetColorMap ==
    /\ nqMap = <<>>
    /\ nqMap' = GetColorMap(nq)
    /\ UNCHANGED <<nqPixels, nq, nqQuery, nqEntry, nqAnswer, nqLookups, encVars, lzwVars, bbVars>>

\* lookupRGB(b, g, r)
NQLookup ==
    /\ nqLookups < MaxLookups
    /\ nqLookups' = nqLookups + 1
    /\ \E b \in QueryLevels, g \in QueryLevels, r \in QueryLevels :
        /\ nqQuery' = <<b, g, r>>
        /\ nqAnswer' = LookupRGB(nq, b, g, r)
    /\ nqEntry' = -1
    /\ UNCHANGED <<nqPixels, nq, nqMap, encVars, lzwVars, bbVars>>

\* lookupRGB(map[3i], map[3i + 1], map[3i + 2]) on the result of
\* getColorMap().  Past the end of map the reads give undefined; with g
\* undefined, index = networkIndex[g] is undefined, neither loop of
\* lookupRGB runs and the call returns best = -1.
NQLookupEntry ==
    /\ nqMap # <<>>
    /\ nqLookups < MaxLookups
    /\ nqLookups' = nqLookups + 1
    /\ \E i \in EntryIndices :
        /\ nqEntry' = i
        /\ IF 3 * i + 2 < Len(nqMap)
           THEN /\ nqQuery' = <<nqMap[3 * i + 1], nqMap[3 * i + 2], nqMap[3 * i + 3]>>
                /\ nqAnswer' = LookupRGB(nq, nqMap[3 * i + 1], nqMap[3 * i + 2],
                                         nqMap[3 * i + 3])
           ELSE /\ nqQuery' = <<>>
                /\ nqAnswer' = -1
    /\ UNCHANGED <<nqPixels, nq, nqMap, encVars, lzwVars, bbVars>>

NQNext ==
    \/ NQGetColorMap
    \/ NQLookup
    \/ NQLookupEntry

SpecNQ == NQInit /\ [][NQNext]_vars

\* The neuron of the network carrying the tag t.
NeuronOf(q, t) == q.networks[CHOOSE i \in Neurons : q.networks[i][4] = t]

\* The least L1 distance from <<b, g, r>> to a neuron of the network.
NearestDistance(q, b, g, r) ==
    CHOOSE d \in {Distance(q.networks[i], b, g, r) : i \in Neurons} :
        \A i \in Neurons : d <= Distance(q.networks[i], b, g, r)

\* C5: getColorMap() returns 768 numbers, the colours of all 256 neurons,
\* entry i at offsets 3i..3i+2, the entries in ascending order of green.
ColorMapComplete ==
    nqMap # <<>> =>
        /\ Len(nqMap) = 3 * 256
        /\ \A n \in Neurons :
            \E i \in 0..255 :
                <<nqMap[3 * i + 1], nqMap[3 * i + 2], nqMap[3 * i + 3]>>
                    = <<nq.networks[n][1], nq.networks[n][2], nq.networks[n][3]>>
        /\ \A i \in 0..254 : nqMap[3 * i + 2] <= nqMap[3 * i + 5]

\* C8: lookupRGB(b, g, r) returns the tag of a neuron at the least L1
\* distance from <<b, g, r>> among all 256 neurons.
LookupNearest ==
    nqQuery # <<>> =>
        /\ nqAnswer \in 0..255
        /\ Distance(NeuronOf(nq, nqAnswer), nqQuery[1], nqQuery[2], nqQuery[3])
               = NearestDistance(nq, nqQuery[1], nqQuery[2], nqQuery[3])

\* C8 witness: a lookup whose answer is not the neuron at networkIndex[g],
\* the position where the search starts, and is at a distance above 0.
LookupNearestWitness ==
    /\ nqQuery # <<>>
    /\ nqAnswer \in 0..255
    /\ nq.networks[nq.networkIndex[nqQuery[2]]][4] # nqAnswer
    /\ NearestDistance(nq, nqQuery[1], nqQuery[2], nqQuery[3]) > 0

\* C9: the lookup of the colour read from palette entry i of the result of
\* getColorMap() returns i.
LookupConsistency ==
    nqEntry >= 0 => nqAnswer = nqEntry

\* C28: after the construction of a quantizer every coordinate of every
\* neuron is an integer in 0..255, the network is in ascending order of
\* green (coordinate 1), and the 256 tags are a permutation of 0..255, each
\* still with the colour its neuron had before the sort.
NetworkSortedWithTags ==
    nqPixels # <<>> =>
        /\ \A i \in Neurons : \A c \in 1..3 : nq.networks[i][c] \in 0..255
        /\ \A i \in 0..(maximumColorsSize - 2) :
               nq.networks[i][2] <= nq.networks[i + 1][2]
        /\ {nq.networks[i][4] : i \in Neurons} = Neurons
        /\ \E unbiased \in {Forced(UnBiasNetwork(Learn(nqPixels)))} :
               \A i \in Neurons :
                   /\ nq.networks[i][4] \in Neurons
                   /\ SubSeq(nq.networks[i], 1, 3) =
                          SubSeq(unbiased[nq.networks[i][4]], 1, 3)

\* C28 witness: a quantizer whose sort moved neurons to other positions
\* and whose network holds more than one value of green.
NetworkSortedWithTagsWitness ==
    /\ nqPixels = <<3, 250, 128>>
    /\ \E i \in Neurons : nq.networks[i][4] # i
    /\ \E i \in 0..(maximumColorsSize - 2) :
           nq.networks[i][2] < nq.networks[i + 1][2]

====
